---- MODULE Spec2Model ----
(***************************************************************************)
(* Model of the chat session component (ChatComponent): its React state,   *)
(* the sockets it creates, the effect that connects on a credential change *)
(* and the handlers for join / leave / send / exit and the server pushes.  *)
(* One action is one handler run to completion together with the render    *)
(* and the effects that React flushes after it.                            *)
(***************************************************************************)
EXTENDS Integers, Sequences, FiniteSets, TLC

\* ----- bounds of the model ------------------------------------------------
\* one budget for everything that grows: the sockets created, the messages
\* logged, the requests and file reads in flight, the inputs filled in and
\* the user fetched count one each, and a step that would exceed the budget
\* is not taken
MaxLoad == 3

\* ----- input alphabets ----------------------------------------------------
Null      == "null"                       \* the null of currentRoom / file / currentUser
Tokens    == {"t1", "t2"}                 \* non-empty auth tokens typed by the user
RoomIds   == {"r1", "r2", ""}             \* room ids handed to joinRoom ("" is the empty id)
RoomLists == {<<"r1", "r2">>}            \* response.data.list of GET /chat/rooms (ids)
Msgs      == {"m1", "m2"}                 \* messages the server pushes
Texts     == {"", "hi"}                   \* contents of the message text field
Files     == {"f1"}                       \* files of the file input
Users     == {"u1"}                       \* response.data of GET /user

VARIABLES
  socket,        \* useState<Socket|null>: 0 is null, else the id of a socket
  authToken,     \* useState<string>
  chatRooms,     \* useState<ChatRoom[]>: the ids of the room summaries
  currentRoom,   \* useState<string|null>
  messages,      \* useState<Message[]>
  inputMessage,  \* useState<string>
  file,          \* useState<File|null>
  isConnected,   \* useState<boolean>
  currentUser,   \* useState<User|null>
  conns,         \* the sockets created so far: conns[s] is the status of socket s
  effectSocket,  \* the `socket` captured by the cleanup of the connect effect
  pending,       \* requests and file reads in flight, each with what its callback captured
  lastOp,        \* history: the handler that ran last and whether its guard passed
  lastEmit,      \* history: the events that handler emitted, in order
  joined,        \* history: joined[s] = rooms joined and not left on socket s
  received       \* history: payloads received since the log was last cleared

state == <<socket, authToken, chatRooms, currentRoom, messages, inputMessage,
           file, isConnected, currentUser>>
env   == <<conns, effectSocket, pending>>
hist  == <<lastOp, lastEmit, joined, received>>
vars  == <<socket, authToken, chatRooms, currentRoom, messages, inputMessage,
           file, isConnected, currentUser, conns, effectSocket, pending,
           lastOp, lastEmit, joined, received>>

Sockets == 1..Len(conns)
Open(s) == conns[s] \in {"connecting", "connected"}

Op(name, ok) == [op |-> name, ok |-> ok]
Job(kind, s, roomId, f) == [kind |-> kind, sock |-> s, roomId |-> roomId, file |-> f]
Ev(s, name, roomId, data) == [sock |-> s, ev |-> name, roomId |-> roomId, data |-> data]

Init ==
  /\ socket = 0
  /\ authToken = ""
  /\ chatRooms = <<>>
  /\ currentRoom = Null
  /\ messages = <<>>
  /\ inputMessage = ""
  /\ file = Null
  /\ isConnected = FALSE
  /\ currentUser = Null
  /\ conns = <<>>
  /\ effectSocket = 0
  /\ pending = <<>>
  /\ lastOp = Op("init", FALSE)
  /\ lastEmit = <<>>
  /\ joined = <<>>
  /\ received = <<>>

\* ----- the transport (socket.io-client) -----------------------------------
\* socket.disconnect(): the socket is closed for good; s = 0 is `if (socket)` failing
Disconnect(cs, s) == IF s # 0 THEN [cs EXCEPT ![s] = "closed"] ELSE cs

\* socket.disconnect() on a connected socket fires its "disconnect" handler
FiresDisconnect(cs, s) == s # 0 /\ cs[s] = "connected"

\* membership history after the sockets in S were disconnected
Forget(j, S) == [s \in DOMAIN j |-> IF s \in S THEN {} ELSE j[s]]

\* membership history after the events es were emitted, in order
RECURSIVE Track(_, _)
Track(j, es) ==
  IF es = <<>> THEN j
  ELSE LET e == Head(es)
           j1 == IF e.ev = "joinRoom"
                   THEN [j EXCEPT ![e.sock] = @ \cup {e.roomId}]
                 ELSE IF e.ev = "leaveRoom"
                   THEN [j EXCEPT ![e.sock] = @ \ {e.roomId}]
                 ELSE j
       IN Track(j1, Tail(es))

\* connectSocket(): io(...) creates a socket and setSocket(newSocket)
connectSocket(token, cs) == IF token # "" THEN Append(cs, "connecting") ELSE cs
connectedSocket(token, cs, old) == IF token # "" THEN Len(cs) + 1 ELSE old

\* <TextField onChange={setAuthToken}> followed by the render it causes: the
\* user-info effect, then the cleanup of the connect effect (with the socket
\* it captured) and the connect effect itself
SetAuthToken(t) ==
  /\ t # authToken
  /\ authToken' = t
  /\ pending' = IF t # "" THEN Append(pending, Job("user", 0, Null, Null)) ELSE pending
  /\ LET cs1 == Disconnect(conns, effectSocket)
     IN /\ conns' = connectSocket(t, cs1)
        /\ socket' = connectedSocket(t, cs1, socket)
        /\ isConnected' = IF FiresDisconnect(conns, effectSocket) THEN FALSE ELSE isConnected
        /\ joined' = IF t # "" THEN Append(Forget(joined, {effectSocket}), {})
                     ELSE Forget(joined, {effectSocket})
  /\ effectSocket' = socket
  /\ lastOp' = Op("setAuthToken", TRUE)
  /\ lastEmit' = <<>>
  /\ UNCHANGED <<chatRooms, currentRoom, messages, inputMessage, file, currentUser,
                 received>>

\* <Button onClick={connectSocket}>: no effect runs, nothing is torn down
ConnectClick ==
  /\ conns' = connectSocket(authToken, conns)
  /\ socket' = connectedSocket(authToken, conns, socket)
  /\ joined' = IF authToken # "" THEN Append(joined, {}) ELSE joined
  /\ lastOp' = Op("connect", authToken # "")
  /\ lastEmit' = <<>>
  /\ UNCHANGED <<authToken, chatRooms, currentRoom, messages, inputMessage, file,
                 isConnected, currentUser, effectSocket, pending, received>>

\* newSocket.on("connect")
OnConnect(s) ==
  /\ conns[s] = "connecting"
  /\ conns' = [conns EXCEPT ![s] = "connected"]
  /\ isConnected' = TRUE
  /\ lastOp' = Op("onConnect", TRUE)
  /\ lastEmit' = <<>>
  /\ UNCHANGED <<socket, authToken, chatRooms, currentRoom, messages, inputMessage,
                 file, currentUser, effectSocket, pending, joined, received>>

\* newSocket.on("connect_error"): the manager retries (retry) or the server
\* refused the handshake and the socket is left closed
OnConnectError(s, retry) ==
  /\ conns[s] = "connecting"
  /\ conns' = [conns EXCEPT ![s] = IF retry THEN "connecting" ELSE "closed"]
  /\ isConnected' = FALSE
  /\ lastOp' = Op("onConnectError", TRUE)
  /\ lastEmit' = <<>>
  /\ UNCHANGED <<socket, authToken, chatRooms, currentRoom, messages, inputMessage,
                 file, currentUser, effectSocket, pending, joined, received>>

\* variant: a drop puts the component out of its room
onDisconnectLeavesRoom == Null

\* the current room after a drop: the handler sets isConnected only
onDisconnectRoom == currentRoom

\* newSocket.on("disconnect") for a drop the client did not ask for: the
\* manager reconnects after a transport close (retry), not after a server kick
OnDisconnect(s, retry) ==
  /\ conns[s] = "connected"
  /\ currentRoom' = onDisconnectRoom
  /\ conns' = [conns EXCEPT ![s] = IF retry THEN "connecting" ELSE "closed"]
  /\ isConnected' = FALSE
  /\ joined' = Forget(joined, {s})
  /\ lastOp' = Op("onDisconnect", TRUE)
  /\ lastEmit' = <<>>
  /\ UNCHANGED <<socket, authToken, chatRooms, messages, inputMessage, file,
                 currentUser, effectSocket, pending, received>>

\* ----- inbound pushes ------------------------------------------------------
\* variant: the new messages are put in front of the log
prependMessages(prevMessages, newMessages) == newMessages \o prevMessages

\* setMessages((prevMessages) => [...prevMessages, ...newMessages])
appendMessages(prevMessages, newMessages) == prevMessages \o newMessages

Batches == {<<>>} \cup {<<m>> : m \in Msgs} \cup {<<m, n>> : m \in Msgs, n \in Msgs}

\* newSocket.on(ChatEvents.FromServer.NewMessage)
OnNewMessage(s, m) ==
  /\ conns[s] = "connected"
  /\ messages' = appendMessages(messages, <<m>>)
  /\ received' = Append(received, m)
  /\ lastOp' = Op("onNewMessage", TRUE)
  /\ lastEmit' = <<>>
  /\ UNCHANGED <<socket, authToken, chatRooms, currentRoom, inputMessage, file,
                 isConnected, currentUser, env, joined>>

\* newSocket.on(ChatEvents.FromServer.NewMessages)
OnNewMessages(s, batch) ==
  /\ conns[s] = "connected"
  /\ messages' = appendMessages(messages, batch)
  /\ received' = received \o batch
  /\ lastOp' = Op("onNewMessages", TRUE)
  /\ lastEmit' = <<>>
  /\ UNCHANGED <<socket, authToken, chatRooms, currentRoom, inputMessage, file,
                 isConnected, currentUser, env, joined>>

\* variant: an exception puts the component out of its room
onExceptionLeavesRoom == Null

\* the current room after an exception: the handler sets nothing
onExceptionRoom == currentRoom

\* newSocket.on(ChatEvents.FromServer.Exception): console.log only
OnException(s) ==
  /\ conns[s] = "connected"
  /\ currentRoom' = onExceptionRoom
  /\ lastOp' = Op("onException", TRUE)
  /\ lastEmit' = <<>>
  /\ UNCHANGED <<socket, authToken, chatRooms, messages, inputMessage, file,
                 isConnected, currentUser, env, joined, received>>

\* ----- HTTP collaborators -------------------------------------------------
Remove(q, i) == [k \in 1..(Len(q) - 1) |-> IF k < i THEN q[k] ELSE q[k + 1]]
Pending(kind) == {i \in 1..Len(pending) : pending[i].kind = kind}

\* fetchUserInfo resolves: setCurrentUser(response.data)
FetchUserOk(i, u) ==
  /\ i \in Pending("user")
  /\ pending' = Remove(pending, i)
  /\ currentUser' = u
  /\ lastOp' = Op("fetchUserOk", TRUE)
  /\ lastEmit' = <<>>
  /\ UNCHANGED <<socket, authToken, chatRooms, currentRoom, messages, inputMessage,
                 file, isConnected, conns, effectSocket, joined, received>>

\* fetchUserInfo rejects: console.error only
FetchUserFail(i) ==
  /\ i \in Pending("user")
  /\ pending' = Remove(pending, i)
  /\ lastOp' = Op("fetchUserFail", FALSE)
  /\ lastEmit' = <<>>
  /\ UNCHANGED <<state, conns, effectSocket, joined, received>>

\* <Button onClick={fetchChatRooms}>: the request is issued
FetchChatRooms ==
  /\ pending' = Append(pending, Job("rooms", 0, Null, Null))
  /\ lastOp' = Op("fetchChatRooms", TRUE)
  /\ lastEmit' = <<>>
  /\ UNCHANGED <<state, conns, effectSocket, joined, received>>

\* fetchChatRooms resolves: setChatRooms(response.data.list)
FetchChatRoomsOk(i, list) ==
  /\ i \in Pending("rooms")
  /\ pending' = Remove(pending, i)
  /\ chatRooms' = list
  /\ lastOp' = Op("fetchChatRoomsOk", TRUE)
  /\ lastEmit' = <<>>
  /\ UNCHANGED <<socket, authToken, currentRoom, messages, inputMessage, file,
                 isConnected, currentUser, conns, effectSocket, joined, received>>

\* variant: a failed request empties the room list
fetchChatRoomsFailClears == <<>>

\* the room list after a failed request: the catch block sets nothing
fetchChatRoomsFailRooms == chatRooms

\* fetchChatRooms rejects: console.error only
FetchChatRoomsFail(i) ==
  /\ i \in Pending("rooms")
  /\ pending' = Remove(pending, i)
  /\ chatRooms' = fetchChatRoomsFailRooms
  /\ lastOp' = Op("fetchChatRoomsFail", FALSE)
  /\ lastEmit' = <<>>
  /\ UNCHANGED <<socket, authToken, currentRoom, messages, inputMessage, file,
                 isConnected, currentUser, conns, effectSocket, joined, received>>

\* ----- room membership ----------------------------------------------------
\* variant: leaveRoom does not look at currentRoom
leaveRoomGuardSocketOnly == socket # 0

\* if (socket && currentRoom) of leaveRoom
leaveRoomGuard == socket # 0 /\ currentRoom # Null

\* the events leaveRoom emits
leaveRoomEmits ==
  IF leaveRoomGuard THEN <<Ev(socket, "leaveRoom", currentRoom, "")>> ELSE <<>>

\* variant: leaveRoom keeps the log
leaveRoomKeepsMessages == messages

\* the log leaveRoom leaves behind: setMessages([])
leaveRoomMessages == IF leaveRoomGuard THEN <<>> ELSE messages

\* <Button onClick={leaveRoom}>
LeaveRoom ==
  /\ lastEmit' = leaveRoomEmits
  /\ joined' = Track(joined, leaveRoomEmits)
  /\ currentRoom' = IF leaveRoomGuard THEN Null ELSE currentRoom
  /\ messages' = leaveRoomMessages
  /\ received' = IF leaveRoomGuard THEN <<>> ELSE received
  /\ lastOp' = Op("leave", leaveRoomGuard)
  /\ UNCHANGED <<socket, authToken, chatRooms, inputMessage, file, isConnected,
                 currentUser, env>>

\* if (socket && roomId) of joinRoom
joinRoomGuard(roomId) == socket # 0 /\ roomId # ""

\* variant: joinRoom does not leave the current room
joinRoomEmitsNoLeave(roomId) ==
  IF socket # 0 /\ roomId # ""
    THEN <<Ev(socket, "joinRoom", roomId, "")>>
    ELSE <<>>

\* variant: joinRoom joins the new room before it leaves the current one
joinRoomEmitsJoinFirst(roomId) ==
  IF socket # 0 /\ roomId # ""
    THEN <<Ev(socket, "joinRoom", roomId, "")>>
           \o (IF currentRoom # Null THEN leaveRoomEmits ELSE <<>>)
    ELSE <<>>

\* the events joinRoom emits: those of leaveRoom() when a room is current,
\* then JoinRoom
joinRoomEmits(roomId) ==
  IF joinRoomGuard(roomId)
    THEN (IF currentRoom # Null THEN leaveRoomEmits ELSE <<>>)
           \o <<Ev(socket, "joinRoom", roomId, "")>>
    ELSE <<>>

\* the log joinRoom leaves behind: setMessages([])
joinRoomMessages(roomId) == IF joinRoomGuard(roomId) THEN <<>> ELSE messages

\* onJoinRoom={joinRoom} of a room list item
JoinRoom(roomId) ==
  /\ lastEmit' = joinRoomEmits(roomId)
  /\ joined' = Track(joined, joinRoomEmits(roomId))
  /\ currentRoom' = IF joinRoomGuard(roomId) THEN roomId ELSE currentRoom
  /\ messages' = joinRoomMessages(roomId)
  /\ received' = IF joinRoomGuard(roomId) THEN <<>> ELSE received
  /\ lastOp' = Op("join", joinRoomGuard(roomId))
  /\ UNCHANGED <<socket, authToken, chatRooms, inputMessage, file, isConnected,
                 currentUser, env>>

\* ----- message channel ----------------------------------------------------
\* <TextField onChange={setInputMessage}>
SetInputMessage(t) ==
  /\ t # inputMessage
  /\ inputMessage' = t
  /\ lastOp' = Op("setInputMessage", TRUE)
  /\ lastEmit' = <<>>
  /\ UNCHANGED <<socket, authToken, chatRooms, currentRoom, messages, file,
                 isConnected, currentUser, env, joined, received>>

\* <input type="file" onChange={setFile}>
SetFile(f) ==
  /\ f # file
  /\ file' = f
  /\ lastOp' = Op("setFile", TRUE)
  /\ lastEmit' = <<>>
  /\ UNCHANGED <<socket, authToken, chatRooms, currentRoom, messages, inputMessage,
                 isConnected, currentUser, env, joined, received>>

\* variant: sendTextMessage does not look at currentRoom
sendTextGuardNoRoom == socket # 0 /\ inputMessage # ""

\* if (socket && inputMessage && currentRoom) of sendTextMessage
sendTextGuard == socket # 0 /\ inputMessage # "" /\ currentRoom # Null

\* variant: the input field is cleared before the event is built
sendTextEmitsCleared ==
  IF sendTextGuard
    THEN <<Ev(socket, "sendTextMessage", currentRoom, "")>>
    ELSE <<>>

\* the events sendTextMessage emits
sendTextEmits ==
  IF sendTextGuard
    THEN <<Ev(socket, "sendTextMessage", currentRoom, inputMessage)>>
    ELSE <<>>

\* variant: sendTextMessage puts the text sent into the log itself
sendTextEchoes == IF sendTextGuard THEN Append(messages, inputMessage) ELSE messages

\* the log sendTextMessage leaves behind: it calls no setMessages
sendTextMessages == messages

\* <Button onClick={sendTextMessage}>: emit with an acknowledgement callback,
\* then setInputMessage("")
SendTextMessage ==
  /\ lastEmit' = sendTextEmits
  /\ messages' = sendTextMessages
  /\ pending' = IF sendTextGuard
                  THEN Append(pending, Job("ack", 0, Null, Null))
                  ELSE pending
  /\ inputMessage' = IF sendTextGuard THEN "" ELSE inputMessage
  /\ lastOp' = Op("sendText", sendTextGuard)
  /\ UNCHANGED <<socket, authToken, chatRooms, currentRoom, file, isConnected,
                 currentUser, conns, effectSocket, joined, received>>

\* the acknowledgement callback of an emit, (response) => console.log(...);
\* ok is what the response says
SendAck(i, ok) ==
  /\ i \in Pending("ack")
  /\ pending' = Remove(pending, i)
  /\ lastOp' = Op("sendAck", ok)
  /\ lastEmit' = <<>>
  /\ UNCHANGED <<state, conns, effectSocket, joined, received>>

\* if (socket && file && currentRoom) of sendFileMessage
sendFileGuard == socket # 0 /\ file # Null /\ currentRoom # Null

\* <Button onClick={sendFileMessage}>: reader.readAsArrayBuffer(file) starts a
\* read whose onload closes over socket, file and currentRoom
SendFileMessage ==
  /\ pending' = IF sendFileGuard
                  THEN Append(pending, Job("read", socket, currentRoom, file))
                  ELSE pending
  /\ lastOp' = Op("sendFile", sendFileGuard)
  /\ lastEmit' = <<>>
  /\ UNCHANGED <<state, conns, effectSocket, joined, received>>

\* variant: reader.onload reads the socket and the room of the moment it runs
readerEmitsCurrent(r) == <<Ev(socket, "sendFileMessage", currentRoom, r.file)>>

\* the events reader.onload emits, from the values its closure captured
readerEmits(r) == <<Ev(r.sock, "sendFileMessage", r.roomId, r.file)>>

\* variant: reader.onload keeps the selection
readerLoadKeepsFile == file

\* the selection reader.onload leaves behind: setFile(null)
readerLoadFile == Null

\* reader.onload with a result: emit with an acknowledgement callback, then
\* setFile(null)
ReaderLoad(i) ==
  /\ i \in Pending("read")
  /\ pending' = Append(Remove(pending, i), Job("ack", 0, Null, Null))
  /\ lastEmit' = readerEmits(pending[i])
  /\ file' = readerLoadFile
  /\ lastOp' = Op("readerLoad", TRUE)
  /\ UNCHANGED <<socket, authToken, chatRooms, currentRoom, messages, inputMessage,
                 isConnected, currentUser, conns, effectSocket, joined, received>>

\* variant: onload emits without looking at the result
readerFailEmitsAnyway(r) == <<Ev(r.sock, "sendFileMessage", r.roomId, r.file)>>

\* the events of a read without result: if (e.target && e.target.result) fails
readerFailEmits(r) == <<>>

\* the read fails (no onerror handler) or onload sees no result
ReaderFail(i) ==
  /\ i \in Pending("read")
  /\ pending' = Remove(pending, i)
  /\ lastEmit' = readerFailEmits(pending[i])
  /\ lastOp' = Op("readerFail", FALSE)
  /\ UNCHANGED <<state, conns, effectSocket, joined, received>>

\* ----- session ------------------------------------------------------------
\* variant: exitChatApplication leaves the current room first
exitEmitsLeave == leaveRoomEmits

\* the events exitChatApplication emits: it calls socket.disconnect() only
exitEmits == <<>>

\* variant: exitChatApplication leaves the socket as it is
exitKeepsSocket(cs) == cs

\* if (socket) socket.disconnect() of exitChatApplication
exitDisconnect(cs) == Disconnect(cs, socket)

\* variant: exitChatApplication aborts the requests and reads in flight
exitAbortsPending == <<>>

\* what exitChatApplication leaves in flight: it aborts nothing
exitPending == pending

\* <Button onClick={exitChatApplication}> followed by the render it causes:
\* when the token was set, the cleanup of the connect effect runs and the
\* connect effect finds an empty token
ExitChatApplication ==
  /\ LET cleaned == IF authToken # "" THEN {effectSocket} ELSE {}
         cs1 == exitDisconnect(conns)
     IN /\ conns' = IF authToken # "" THEN Disconnect(cs1, effectSocket) ELSE cs1
        /\ joined' = Forget(joined, {socket} \cup cleaned)
  /\ effectSocket' = IF authToken # "" THEN socket ELSE effectSocket
  /\ authToken' = ""
  /\ chatRooms' = <<>>
  /\ currentRoom' = Null
  /\ messages' = <<>>
  /\ received' = <<>>
  /\ isConnected' = FALSE
  /\ currentUser' = Null
  /\ pending' = exitPending
  /\ lastOp' = Op("exit", TRUE)
  /\ lastEmit' = exitEmits
  /\ UNCHANGED <<socket, inputMessage, file>>

\* ----- the explored part of the state space ------------------------------
Load ==
  Len(conns) + Len(messages) + Len(pending)
    + (IF file # Null THEN 1 ELSE 0) + (IF inputMessage # "" THEN 1 ELSE 0)
    + (IF currentUser # Null THEN 1 ELSE 0)

Within == Load <= MaxLoad

\* every handler of the component may be invoked in every state, and the
\* server, the HTTP collaborators and the file reader answer when they like
Next ==
  \/ \E t \in Tokens \cup {""} : SetAuthToken(t) /\ Within'
  \/ ConnectClick /\ Within'
  \/ FetchChatRooms /\ Within'
  \/ ExitChatApplication
  \/ \E roomId \in RoomIds : JoinRoom(roomId)
  \/ LeaveRoom
  \/ \E t \in Texts : SetInputMessage(t) /\ Within'
  \/ \E f \in Files \cup {Null} : SetFile(f) /\ Within'
  \/ SendTextMessage
  \/ SendFileMessage /\ Within'
  \/ \E s \in Sockets : OnConnect(s)
  \/ \E s \in Sockets, retry \in BOOLEAN : OnConnectError(s, retry)
  \/ \E s \in Sockets, retry \in BOOLEAN : OnDisconnect(s, retry)
  \/ \E s \in Sockets, m \in Msgs : OnNewMessage(s, m) /\ Within'
  \/ \E s \in Sockets, batch \in Batches : OnNewMessages(s, batch) /\ Within'
  \/ \E s \in Sockets : OnException(s)
  \/ \E i \in DOMAIN pending, u \in Users : FetchUserOk(i, u) /\ Within'
  \/ \E i \in DOMAIN pending : FetchUserFail(i)
  \/ \E i \in DOMAIN pending, list \in RoomLists : FetchChatRoomsOk(i, list)
  \/ \E i \in DOMAIN pending : FetchChatRoomsFail(i)
  \/ \E i \in DOMAIN pending : ReaderLoad(i)
  \/ \E i \in DOMAIN pending : ReaderFail(i)
  \/ \E i \in DOMAIN pending, ok \in BOOLEAN : SendAck(i, ok)

Spec == Init /\ [][Next]_vars

\* ----- the component behind its rendered controls -------------------------
\* {!isConnected ? ...}: the token field and the Connect button
LoginRendered == ~isConnected
\* {... : ...}: the room list, the list and the exit buttons
SessionRendered == isConnected
\* {currentRoom && ...}: the leave button, the inputs and the send buttons
RoomRendered == isConnected /\ currentRoom # Null
\* chatRooms.map(room => <CustomChatRoomListItem onJoinRoom={joinRoom}>)
ListedRooms == {chatRooms[i] : i \in 1..Len(chatRooms)}

\* a handler runs only when the control that calls it is on the page
NextUI ==
  \/ LoginRendered /\ \E t \in Tokens \cup {""} : SetAuthToken(t) /\ Within'
  \/ LoginRendered /\ ConnectClick /\ Within'
  \/ SessionRendered /\ FetchChatRooms /\ Within'
  \/ SessionRendered /\ ExitChatApplication
  \/ SessionRendered /\ \E roomId \in ListedRooms : JoinRoom(roomId)
  \/ RoomRendered /\ LeaveRoom
  \/ RoomRendered /\ \E t \in Texts : SetInputMessage(t) /\ Within'
  \/ RoomRendered /\ \E f \in Files \cup {Null} : SetFile(f) /\ Within'
  \/ RoomRendered /\ SendTextMessage
  \/ RoomRendered /\ SendFileMessage /\ Within'
  \/ \E s \in Sockets : OnConnect(s)
  \/ \E s \in Sockets, retry \in BOOLEAN : OnConnectError(s, retry)
  \/ \E s \in Sockets, retry \in BOOLEAN : OnDisconnect(s, retry)
  \/ \E s \in Sockets, m \in Msgs : OnNewMessage(s, m) /\ Within'
  \/ \E s \in Sockets, batch \in Batches : OnNewMessages(s, batch) /\ Within'
  \/ \E s \in Sockets : OnException(s)
  \/ \E i \in DOMAIN pending, u \in Users : FetchUserOk(i, u) /\ Within'
  \/ \E i \in DOMAIN pending : FetchUserFail(i)
  \/ \E i \in DOMAIN pending, list \in RoomLists : FetchChatRoomsOk(i, list)
  \/ \E i \in DOMAIN pending : FetchChatRoomsFail(i)
  \/ \E i \in DOMAIN pending : ReaderLoad(i)
  \/ \E i \in DOMAIN pending : ReaderFail(i)
  \/ \E i \in DOMAIN pending, ok \in BOOLEAN : SendAck(i, ok)

SpecUI == Init /\ [][NextUI]_vars

TypeOK ==
  /\ socket \in 0..Len(conns)
  /\ effectSocket \in 0..Len(conns)
  /\ Within
  /\ authToken \in Tokens \cup {""}
  /\ currentRoom \in (RoomIds \ {""}) \cup {Null}
  /\ isConnected \in BOOLEAN
  /\ DOMAIN joined = DOMAIN conns

\* ----- properties ----------------------------------------------------------
Rooms == RoomIds \ {""}
OpenSockets == {s \in Sockets : Open(s)}

\* C1: join(B) invoked in state in-room(A) with a socket present ends in
\* in-room(B) with an empty log and emits exactly leave-room(A) followed by
\* join-room(B), both on the held socket.
C1_JoinSwitchesRoom ==
  [][\A A \in Rooms, B \in Rooms :
       (currentRoom = A /\ socket # 0 /\ JoinRoom(B))
         => /\ currentRoom' = B
            /\ messages' = <<>>
            /\ lastEmit' = <<Ev(socket, "leaveRoom", A, ""), Ev(socket, "joinRoom", B, "")>>]_vars

C1_Witness ==
  /\ lastOp = Op("join", TRUE)
  /\ currentRoom = "r2"
  /\ messages = <<>>
  /\ Len(lastEmit) = 2
  /\ lastEmit[1].ev = "leaveRoom" /\ lastEmit[1].roomId = "r1"
  /\ lastEmit[2].ev = "joinRoom" /\ lastEmit[2].roomId = "r2"

\* C2: in every reachable state at most one socket is open (created and not
\* yet disconnected).
C2_AtMostOneOpenConnection == Cardinality(OpenSockets) <= 1

\* C3: right after exit() the credential is empty, the connection flag is
\* false, the held socket is disconnected, there is no current room, the log
\* and the room summaries are empty and there is no current user; an exit()
\* that follows an exit() changes none of these.
ExitPost ==
  /\ authToken = ""
  /\ ~isConnected
  /\ socket # 0 => conns[socket] = "closed"
  /\ currentRoom = Null
  /\ messages = <<>>
  /\ chatRooms = <<>>
  /\ currentUser = Null

C3_ExitResets ==
  [][ExitChatApplication
       => /\ ExitPost'
          /\ lastOp.op = "exit"
               => UNCHANGED <<authToken, isConnected, conns, currentRoom, messages,
                              chatRooms, currentUser>>]_vars

C3_Witness ==
  /\ lastOp.op = "exit"
  /\ socket # 0 /\ conns[socket] = "closed"
  /\ ExitPost

\* C4: no event is emitted by a step that starts with the isConnected flag
\* false.
C4_EmitsOnlyWhenConnected == [][lastEmit' # <<>> => isConnected]_vars

\* C5: on every socket, the rooms joined and not left since (nor dropped by
\* a disconnect of that socket) are at most one.
C5_OneRoomPerConnection == \A s \in Sockets : Cardinality(joined[s]) <= 1

C5_Witness ==
  \E s \in Sockets :
    /\ joined[s] = {"r1"}
    /\ lastOp = Op("join", TRUE)
    /\ Len(lastEmit) = 2
    /\ lastEmit[1] = Ev(s, "leaveRoom", "r2", "")

\* C6: leave() invoked with no current room emits nothing and changes no
\* state of the component.
C6_LeaveNoRoomIsNoOp ==
  [][(currentRoom = Null /\ LeaveRoom)
       => (lastEmit' = <<>> /\ UNCHANGED <<state, env>>)]_vars

C6_Witness ==
  /\ lastOp = Op("leave", FALSE)
  /\ currentRoom = Null
  /\ socket # 0 /\ isConnected
  /\ lastEmit = <<>>

\* C7: sendText with an empty input buffer or no current room, sendFile with
\* no pending file or no current room, and join with an empty room id emit
\* nothing and change no state of the component.
C7_Ignored ==
  \/ SendTextMessage /\ (inputMessage = "" \/ currentRoom = Null)
  \/ SendFileMessage /\ (file = Null \/ currentRoom = Null)
  \/ JoinRoom("")

C7_FailedPreconditionIsNoOp ==
  [][C7_Ignored => (lastEmit' = <<>> /\ UNCHANGED <<state, env>>)]_vars

C7_Witness ==
  /\ lastOp = Op("sendText", FALSE)
  /\ socket # 0 /\ isConnected
  /\ currentRoom = Null
  /\ inputMessage = "hi"
  /\ lastEmit = <<>>

\* C8: the log is the payloads of the new-message and new-messages events
\* received since the log was last cleared by join, leave or exit, in the
\* order of receipt.
C8_LogIsReceivedInOrder == messages = received

C8_Witness ==
  /\ lastOp.op = "onNewMessages"
  /\ messages = <<"m2", "m1">>
  /\ currentRoom # Null

\* C9: whenever there is no current room the log is empty.
C9_NoRoomNoLog == currentRoom = Null => messages = <<>>

\* C10: right after a join or a leave that took effect the log is empty.
C10_LogEmptyAfterRoomChange ==
  (lastOp = Op("join", TRUE) \/ lastOp = Op("leave", TRUE)) => messages = <<>>

C10_Witness ==
  /\ lastOp = Op("leave", TRUE)
  /\ lastEmit # <<>> /\ lastEmit[1].ev = "leaveRoom"
  /\ currentRoom = Null
  /\ messages = <<>>

\* C11: right after exit() every part of the component state has its initial
\* value: no socket is held, the input field is empty and no file is selected,
\* and the token, the room summaries, the current room, the log, the
\* connection flag and the current user are as at the start.
C11_ExitIsFullReset ==
  lastOp.op = "exit"
    => /\ socket = 0
       /\ inputMessage = ""
       /\ file = Null
       /\ authToken = ""
       /\ chatRooms = <<>>
       /\ currentRoom = Null
       /\ messages = <<>>
       /\ ~isConnected
       /\ currentUser = Null

\* C12: sendText invoked with a socket held, a non-empty input field and a
\* current room emits exactly one send-text event, on the held socket, with
\* the current room and the content of the input field, and leaves the input
\* field empty; the acknowledgement callback, whatever the response says,
\* changes no state of the component.
C12_SendTextEmitsOnceAndClears ==
  [][/\ (socket # 0 /\ inputMessage # "" /\ currentRoom # Null /\ SendTextMessage)
          => /\ lastEmit' = <<Ev(socket, "sendTextMessage", currentRoom, inputMessage)>>
             /\ inputMessage' = ""
     /\ (\E i \in DOMAIN pending, ok \in BOOLEAN : SendAck(i, ok))
          => UNCHANGED <<state, conns, effectSocket>>]_vars

C12_Witness ==
  /\ lastOp = Op("sendText", TRUE)
  /\ currentRoom = "r1"
  /\ lastEmit = <<Ev(socket, "sendTextMessage", "r1", "hi")>>
  /\ inputMessage = ""
  /\ Pending("ack") # {}

\* C13: a send-file event is emitted only by the completion of a file read
\* that sendFile started, and the file selection stays set from the sendFile
\* call until that event is emitted: as long as a read is in flight a file is
\* selected.
SendFileEmitted == \E k \in DOMAIN lastEmit' : lastEmit'[k].ev = "sendFileMessage"

C13_FileSetUntilEmitted ==
  [][/\ SendFileEmitted => \E i \in Pending("read") : ReaderLoad(i)
     /\ Pending("read")' # {} => file' # Null]_vars

\* C13, amended: a send-file event is emitted only by the completion of a
\* file read that sendFile started; sendFile leaves the selection as it is and
\* the completion clears it in the step that emits; between the two the
\* selection changes only when the user picks or drops a file, or when the
\* read of another sendFile call completes.
C13_FileClearedOnlyByEmission ==
  [][/\ SendFileEmitted => \E i \in Pending("read") : ReaderLoad(i)
     /\ SendFileMessage => file' = file
     /\ (\E i \in Pending("read") : ReaderLoad(i)) => (SendFileEmitted /\ file' = Null)
     /\ file' # file => \/ \E f \in Files \cup {Null} : SetFile(f)
                        \/ \E i \in Pending("read") : ReaderLoad(i)]_vars

C13_Witness ==
  /\ lastOp.op = "readerLoad"
  /\ Len(lastEmit) = 1 /\ lastEmit[1].ev = "sendFileMessage" /\ lastEmit[1].data = "f1"
  /\ file = Null
  /\ Pending("read") = {}

\* C14: a connection error or a drop of a socket leaves the isConnected flag
\* false and the socket closed: no reconnection is under way, so the flag
\* cannot rise again before the user connects anew.
C14_NoRetryAfterError ==
  [][\A s \in Sockets, retry \in BOOLEAN :
       (OnConnectError(s, retry) \/ OnDisconnect(s, retry))
         => (~isConnected' /\ conns'[s] = "closed")]_vars

\* C15: exit() and a change of the token leave every request in flight in
\* flight, and a room-list or user request that then succeeds is applied to
\* the state of that moment: the room summaries become the list of the
\* response, the current user becomes the user of the response.
C15_StaleFetchIsApplied ==
  [][/\ ExitChatApplication => pending' = pending
     /\ (\E t \in Tokens \cup {""} : SetAuthToken(t))
          => SubSeq(pending', 1, Len(pending)) = pending
     /\ \A i \in DOMAIN pending :
          /\ \A list \in RoomLists : FetchChatRoomsOk(i, list) => chatRooms' = list
          /\ \A u \in Users : FetchUserOk(i, u) => currentUser' = u]_vars

C15_Witness ==
  /\ lastOp.op = "fetchUserOk"
  /\ authToken = ""
  /\ currentUser = "u1"
  /\ chatRooms = <<"r1", "r2">>

\* C16: a file read that fails or yields no result emits nothing, then or
\* later (the read is over and nothing of it stays in flight), and changes no
\* state of the component: the file selection, the current room, the log and
\* the connection flag are as before.
C16_FailedReadIsAbandoned ==
  [][\A i \in DOMAIN pending :
       ReaderFail(i)
         => /\ lastEmit' = <<>>
            /\ pending' = Remove(pending, i)
            /\ UNCHANGED <<file, currentRoom, messages, isConnected>>
            /\ UNCHANGED <<state, conns, effectSocket>>]_vars

C16_Witness ==
  /\ lastOp.op = "readerFail"
  /\ file = "f1"
  /\ currentRoom = "r1"
  /\ isConnected
  /\ lastEmit = <<>>
  /\ Pending("read") = {}

\* C17: a room-list request that fails leaves the room summaries as they
\* were, a user request that fails leaves the current user as it was; in both
\* cases nothing else of the component or of its sockets changes, and the
\* failed request is not issued again (it is gone and no other is started).
C17_FailedFetchRetainsState ==
  [][\A i \in DOMAIN pending :
       (FetchChatRoomsFail(i) \/ FetchUserFail(i))
         => /\ chatRooms' = chatRooms
            /\ currentUser' = currentUser
            /\ UNCHANGED <<state, conns, effectSocket>>
            /\ pending' = Remove(pending, i)]_vars

C17_Witness ==
  /\ lastOp.op = "fetchChatRoomsFail"
  /\ chatRooms = <<"r1", "r2">>
  /\ Pending("rooms") = {}

\* C18: receiving an exception event from the server changes nothing: the
\* current room, the log, the connection flag, the token, the room summaries,
\* the current user, the input field and the file selection are as before,
\* as are the socket held and the sockets themselves, and nothing is emitted.
C18_ExceptionChangesNothing ==
  [][(\E s \in Sockets : OnException(s))
       => /\ UNCHANGED <<currentRoom, messages, isConnected, authToken, chatRooms,
                         currentUser, inputMessage, file>>
          /\ UNCHANGED <<socket, env>>
          /\ lastEmit' = <<>>]_vars

C18_Witness ==
  /\ lastOp.op = "onException"
  /\ currentRoom = "r1"
  /\ messages = <<"m1">>
  /\ inputMessage = "hi"
  /\ isConnected

\* C19: the read that sendFile starts captures the socket, the room and the
\* file of that moment, and its completion emits one send-file event with
\* exactly these, on the captured socket, whatever the current room and the
\* socket held are by then.
C19_FileEventCarriesCapturedRoom ==
  [][/\ (socket # 0 /\ file # Null /\ currentRoom # Null /\ SendFileMessage)
          => pending' = Append(pending, Job("read", socket, currentRoom, file))
     /\ \A i \in Pending("read") :
          ReaderLoad(i)
            => lastEmit' = <<Ev(pending[i].sock, "sendFileMessage",
                                pending[i].roomId, pending[i].file)>>]_vars

C19_Witness ==
  /\ lastOp.op = "readerLoad"
  /\ Len(lastEmit) = 1
  /\ lastEmit[1].ev = "sendFileMessage"
  /\ lastEmit[1].roomId = "r1"
  /\ currentRoom = "r2"

\* C20: every leave-room event names a room that was joined on the socket it
\* is emitted on and has not been left on it since (nor dropped by a
\* disconnect of that socket).
C20_LeaveOnlyJoinedRoom ==
  [][\A k \in DOMAIN lastEmit' :
       lastEmit'[k].ev = "leaveRoom"
         => lastEmit'[k].roomId \in joined[lastEmit'[k].sock]]_vars

\* C21: exit() emits nothing, in particular no leave-room event for the room
\* that is current; towards the outside it only disconnects: no socket is
\* created, a socket changes status only by being closed, and no request or
\* file read is started.
C21_ExitEmitsNoLeave ==
  [][\A x \in Rooms \cup {Null} :
       (currentRoom = x /\ ExitChatApplication)
         => /\ lastEmit' = <<>>
            /\ Len(conns') = Len(conns)
            /\ \A s \in Sockets : conns'[s] = conns[s] \/ conns'[s] = "closed"
            /\ pending' = pending]_vars

\* an exit taken with a file read of room r1 still in flight on the held socket
C21_Witness ==
  /\ lastOp.op = "exit"
  /\ lastEmit = <<>>
  /\ socket # 0 /\ conns[socket] = "closed"
  /\ \E i \in Pending("read") : pending[i].roomId = "r1" /\ pending[i].sock = socket

\* C22: the handlers of connect, connect_error and disconnect change, of the
\* component state, the isConnected flag only: the current room, the log, the
\* token, the room summaries and the current user (and the socket held, the
\* input field and the file selection) are as before. After a drop the
\* component can thus be in a room with a non-empty log and the flag false.
ConnectionEvent ==
  \/ \E s \in Sockets : OnConnect(s)
  \/ \E s \in Sockets, retry \in BOOLEAN : OnConnectError(s, retry)
  \/ \E s \in Sockets, retry \in BOOLEAN : OnDisconnect(s, retry)

C22_ConnectionEventsChangeFlagOnly ==
  [][ConnectionEvent
       => /\ UNCHANGED <<currentRoom, messages, authToken, chatRooms, currentUser>>
          /\ UNCHANGED <<socket, inputMessage, file>>
          /\ lastEmit' = <<>>]_vars

C22_Witness ==
  /\ lastOp.op = "onDisconnect"
  /\ ~isConnected
  /\ currentRoom = "r1"
  /\ messages # <<>>

\* C23: sendText, sendFile, the completion of a file read and the
\* acknowledgement of a send leave the log as it is; the log changes only by
\* a new-message or new-messages event appending its payload, or by join,
\* leave or exit emptying it.
SendStep ==
  \/ SendTextMessage
  \/ SendFileMessage
  \/ \E i \in DOMAIN pending : ReaderLoad(i) \/ ReaderFail(i)
  \/ \E i \in DOMAIN pending, ok \in BOOLEAN : SendAck(i, ok)

C23_SendsNeverAppend ==
  [][/\ SendStep => messages' = messages
     /\ messages' # messages
          => \/ /\ lastOp'.op \in {"onNewMessage", "onNewMessages"}
                /\ \E batch \in Batches : messages' = messages \o batch
             \/ /\ lastOp'.op \in {"join", "leave", "exit"}
                /\ messages' = <<>>]_vars

C23_Witness ==
  /\ lastOp = Op("sendText", TRUE)
  /\ Len(lastEmit) = 1 /\ lastEmit[1].data = "hi"
  /\ messages = <<"m1">>

====
